---------------------------- MODULE Spec2Model ----------------------------
(***************************************************************************)
(* Model of the candidate-reduction pipeline of signal-finder-py:          *)
(*   services/utils.py   dedupe_by_url                                     *)
(*   services/rank.py    heuristic_intent_score, rank_posts_by_intent      *)
(*   services/search.py  SearchAllApis (fetch + round-robin mixer)         *)
(*   services/llm.py     llmFilterPosts (response-shape handling)          *)
(*   main.py             search (the /search handler)                      *)
(*   main.py, llm.py     reply_stream, _responses_stream (/reply/stream)   *)
(*                                                                         *)
(* Text is modelled as a sequence of pieces.  A url is the sequence of the *)
(* pieces of its string (host, path, "?", query parts); a title, snippet   *)
(* or query is the sequence of its whitespace-separated words.  Scores are *)
(* Python floats, added and rounded as binary64 does.                      *)
(***************************************************************************)
EXTENDS Integers, Sequences, FiniteSets, TLC

VARIABLES
    pc,              \* position of the operation being modelled
    queries,         \* SearchReq.queries of the /search request
    posts,           \* main.py:105  result of SearchAllApis
    unique,          \* main.py:107  dedupe_by_url(posts)
    top_candidates,  \* main.py:114  rank_posts_by_intent(unique, queries, 60)
    response,        \* what the judgment service answered to llmFilterPosts
    judged,          \* main.py:122  result of llmFilterPosts
    keep,            \* main.py:125  urls of the judgments with keep = true
    result,          \* SearchResp.posts, or <<>> while none / on failure
    items,           \* argument of a direct dedupe_by_url call
    deduped,         \* its result
    deduped2,        \* dedupe_by_url applied to that result
    r_posts,         \* arguments of a direct rank_posts_by_intent call
    r_queries,
    top_n,
    ranked,          \* its result
    f_rd,            \* search.py:53  posts fetched from reddit so far
    f_li,            \* search.py:54  posts fetched from linkedin so far
    f_x,             \* search.py:55  posts of searchXApi
    calls,           \* the calls a /search request has made, in order
    rd_answers,      \* what the k-th reddit _cse call of the request is answered
    li_answers,      \* what the k-th linkedin _cse call of the request is answered
    s_ok,            \* /reply/stream: upstream answered with a success status
    s_lines,         \* the lines the upstream stream delivers, in order
    s_pos,           \* how many of them _responses_stream has consumed
    events           \* what event_generator has yielded so far

vars == <<pc, queries, posts, unique, top_candidates, response, judged, keep,
          result, items, deduped, deduped2, r_posts, r_queries, top_n, ranked,
          f_rd, f_li, f_x, calls, rd_answers, li_answers, s_ok, s_lines, s_pos, events>>

searchVars == <<queries, posts, unique, top_candidates, response, judged, keep, result>>
dedupeVars == <<items, deduped, deduped2>>
rankVars   == <<r_posts, r_queries, top_n, ranked>>
fetchVars  == <<f_rd, f_li, f_x, calls, rd_answers, li_answers>>
streamVars == <<s_ok, s_lines, s_pos, events>>

----------------------------------------------------------------------------
(* Bounds of the model *)

MaxItems  == 3    \* longest argument list of a direct dedupe_by_url call
MaxRanked == 3    \* longest argument list of a direct rank_posts_by_intent call
MaxTopN   == 4    \* largest small top_n tried (besides the default)
NegTopN   == 2    \* top_n is also tried down to -NegTopN
MaxHits   == 1    \* most reddit hits of one query (besides the long list)
BigLen    == 61   \* length of the long reddit hit list
MaxJudged == 2    \* most judgments in a small answer of the filter
MaxFetchHits == 2 \* most hits of one _cse call in SpecFetch
MaxLines  == 3    \* most lines of an upstream stream

(* Program constants *)

DefaultTopN   == 60   \* rank.py:62 / main.py:114
MaxReturned   == 15   \* main.py:133
FallbackCount == 3    \* main.py:130
RecencyWindow == 180  \* rank.py:30

----------------------------------------------------------------------------
(* Generic helpers *)

Min(a, b) == IF a < b THEN a ELSE b
Max(a, b) == IF a > b THEN a ELSE b

SeqsUpTo(S, n) == UNION { [1..k -> S] : k \in 0..n }

\* the elements of s at the positions in S, in order
AtPositionsOf(s, S) ==
    LET P   == S \cap (1..Len(s))
        nth == [k \in 1..Cardinality(P) |->
                   CHOOSE i \in P : Cardinality({ j \in P : j <= i }) = k]
    IN  [k \in 1..Cardinality(P) |-> s[nth[k]]]

\* Python s[:n], negative n counting from the end
SliceTo(s, n) ==
    IF n >= 0 THEN SubSeq(s, 1, Min(n, Len(s)))
              ELSE SubSeq(s, 1, Max(Len(s) + n, 0))

\* Python sub in text, on sequences of pieces: a contiguous run
ContainsRun(text, sub) ==
    \E i \in 0..(Len(text) - Len(sub)) :
        \A k \in 1..Len(sub) : text[i + k] = sub[k]

\* str.lower() on one piece; the pieces not listed are already lower case
Lower(w) ==
    CASE w = "CRM"        -> "crm"
      [] w = "Tool"       -> "tool"
      [] w = "Reddit.com" -> "reddit.com"
      [] OTHER            -> w

LowerAll(text) == [i \in 1..Len(text) |-> Lower(text[i])]

\* pairs <<t, w>> of distinct lower-case pieces with t a substring of w
Infix == { <<"crm", "crms">>, <<"recommend", "recommended">>,
           <<"x.com", "netflix.com">> }

\* Python t in w for single pieces
InPiece(t, w) == t = w \/ <<t, w>> \in Infix

\* Python t in text where t is one word and text a lowered piece sequence
WordIn(t, text) == \E i \in 1..Len(text) : InPiece(t, text[i])

----------------------------------------------------------------------------
(* services/utils.py *)

\* str(url).split("?")[0]
IdentityKey(url) ==
    IF \E i \in 1..Len(url) : url[i] = "?"
    THEN LET first == CHOOSE i \in 1..Len(url) :
                          /\ url[i] = "?"
                          /\ \A j \in 1..(i - 1) : url[j] # "?"
         IN  SubSeq(url, 1, first - 1)
    ELSE url

\* utils.py:8-11  the body of the loop, on the state <<seen, out>>
DedupeStep(st, item) ==
    LET key == IdentityKey(item.url)
    IN  IF key \notin st.seen
        THEN [seen |-> st.seen \cup {key}, out |-> Append(st.out, item)]
        ELSE st

\* utils.py:7  for i in items, positions lo..hi in order.  The range is
\* halved, and the state reached so far is looked at before going on (out is
\* never longer than the list), so that a long list does not nest the
\* evaluation as deep as it is long
RECURSIVE DedupeLoop(_, _, _, _)
DedupeLoop(list, lo, hi, st) ==
    IF lo > hi \/ Len(st.out) > Len(list) THEN st
    ELSE IF lo = hi THEN DedupeStep(st, list[lo])
    ELSE LET mid == (lo + hi) \div 2
             left == DedupeLoop(list, lo, mid, st)
         IN  DedupeLoop(list, mid + 1, hi, left)

\* a removal while iterating: the element after each dropped one is skipped
RECURSIVE DedupeSkipLoop(_, _, _, _)
DedupeSkipLoop(list, i, seen, out) ==
    IF i > Len(list) THEN out
    ELSE LET key == IdentityKey(list[i].url)
         IN  IF key \notin seen
             THEN DedupeSkipLoop(list, i + 1, seen \cup {key}, Append(out, list[i]))
             ELSE IF i + 1 <= Len(list)
                  THEN DedupeSkipLoop(list, i + 2, seen, Append(out, list[i + 1]))
                  ELSE DedupeSkipLoop(list, i + 1, seen, out)

\* keys on the whole url instead of the url cut at "?"
RECURSIVE DedupeFullUrlLoop(_, _, _, _)
DedupeFullUrlLoop(list, i, seen, out) ==
    IF i > Len(list) THEN out
    ELSE IF list[i].url \notin seen
         THEN DedupeFullUrlLoop(list, i + 1, seen \cup {list[i].url}, Append(out, list[i]))
         ELSE DedupeFullUrlLoop(list, i + 1, seen, out)

dedupe_skip_after_drop(list) == DedupeSkipLoop(list, 1, {}, <<>>)
dedupe_by_full_url(list) == DedupeFullUrlLoop(list, 1, {}, <<>>)

\* utils.py:4-12
dedupe_by_url(list) ==
    DedupeLoop(list, 1, Len(list), [seen |-> {}, out |-> <<>>]).out

----------------------------------------------------------------------------
(* services/models.py: Post.ts is an optional string.  A timestamp is       *)
(* modelled by what rank.py can tell about it: absent (None), the empty     *)
(* string, a string fromisoformat rejects, a date-time without an offset    *)
(* (subtracting it from an aware "now" raises TypeError), or a date-time     *)
(* with an offset, d = (now - post_date).days whole days old (d < 0: later   *)
(* than now).                                                               *)

NoTs       == [k |-> "none",  d |-> 0]
EmptyTs    == [k |-> "empty", d |-> 0]
BadTs      == [k |-> "bad",   d |-> 0]
NaiveTs(n) == [k |-> "naive", d |-> n]
AwareTs(n) == [k |-> "aware", d |-> n]

MkPost(src, title, url, snippet, ts) ==
    [source |-> src, title |-> title, url |-> url, snippet |-> snippet, ts |-> ts]

----------------------------------------------------------------------------
(* Python float arithmetic (IEEE 754 binary64, round to nearest, ties to   *)
(* even).  A non-negative float v is kept as the natural number             *)
(* v * 2^FracBits, written in NumLimbs limbs of LimbBits bits, least        *)
(* significant first; every float the score computation meets is a whole    *)
(* multiple of 2^-FracBits.                                                 *)

LimbBits  == 15
NumLimbs  == 7
Precision == 53    \* bits of a binary64 significand
FracBits  == 64

LimbBase == 2^LimbBits
Limbs    == 1..NumLimbs

\* the limbs written out, each computed once
LimbSeq(f) == f \o <<>>

BigZero == LimbSeq([i \in Limbs |-> 0])

\* the limbs of w from the i-th on, carry being what the limbs below bring
RECURSIVE Carry(_, _, _)
Carry(w, i, carry) ==
    IF i > NumLimbs THEN <<>>
    ELSE <<(w[i] + carry) % LimbBase>>
         \o Carry(w, i + 1, (w[i] + carry) \div LimbBase)

\* w with every limb brought below LimbBase
Norm(w) == Carry(w, 1, 0)

BigOfInt(n) ==
    LimbSeq([i \in Limbs |->
        IF i = 1 THEN n % LimbBase
        ELSE IF i = 2 THEN (n \div LimbBase) % LimbBase
        ELSE IF i = 3 THEN (n \div LimbBase) \div LimbBase
        ELSE 0])

BigAdd(a, b) == Norm(LimbSeq([i \in Limbs |-> a[i] + b[i]]))

BigSub(a, b) == Norm(LimbSeq([i \in Limbs |-> a[i] - b[i]]))

BigLess(a, b) ==
    \E i \in Limbs : a[i] < b[i] /\ \A j \in (i + 1)..NumLimbs : a[j] = b[j]

\* a moved n limbs up
LimbsUp(a, n) == LimbSeq([i \in Limbs |-> IF i > n THEN a[i - n] ELSE 0])

\* a * 2^k
BigShl(a, k) ==
    LimbsUp(Norm(LimbSeq([i \in Limbs |-> a[i] * 2^(k % LimbBits)])), k \div LimbBits)

\* 2^k
PowerOfTwo(k) ==
    LimbSeq([i \in Limbs |-> IF i = k \div LimbBits + 1 THEN 2^(k % LimbBits) ELSE 0])

\* bit k of a
BitOf(a, k) == (a[k \div LimbBits + 1] \div 2^(k % LimbBits)) % 2

\* a % 2^s
LowBits(a, s) ==
    LimbSeq([i \in Limbs |->
        IF LimbBits * i <= s THEN a[i]
        ELSE IF LimbBits * (i - 1) >= s THEN 0
        ELSE a[i] % 2^(s - LimbBits * (i - 1))])

\* a - a % 2^s
HighBits(a, s) ==
    LimbSeq([i \in Limbs |->
        IF LimbBits * i <= s THEN 0
        ELSE IF LimbBits * (i - 1) >= s THEN a[i]
        ELSE a[i] - (a[i] % 2^(s - LimbBits * (i - 1)))])

\* remainder of the limbs from i upwards divided by m
RECURSIVE DivRem(_, _, _)
DivRem(a, m, i) ==
    IF i > NumLimbs THEN 0 ELSE (DivRem(a, m, i + 1) * LimbBase + a[i]) % m

BigDivSmall(a, m) ==
    LimbSeq([i \in Limbs |-> (DivRem(a, m, i + 1) * LimbBase + a[i]) \div m])

\* the highest limb of a that is not zero
TopLimb(a) == CHOOSE i \in Limbs : a[i] # 0 /\ \A j \in (i + 1)..NumLimbs : a[j] = 0

\* the number of bits of a limb n > 0
BitLen(n) == CHOOSE k \in 1..LimbBits : 2^(k - 1) <= n /\ n < 2^k

BigBitLen(a) ==
    IF a = BigZero THEN 0
    ELSE LimbBits * (TopLimb(a) - 1) + BitLen(a[TopLimb(a)])

\* whether a value rounds up: low is what lies below the last bit kept,
\* half is half a unit of that bit, odd says the last bit kept is 1
RoundsUp(odd, low, half, sticky) ==
    \/ BigLess(half, low)
    \/ low = half /\ (sticky \/ odd)

\* a with its lowest s bits rounded away
RoundBits(a, sticky, s) ==
    IF s <= 0 THEN a
    ELSE IF RoundsUp(BitOf(a, s) = 1, LowBits(a, s), PowerOfTwo(s - 1), sticky)
         THEN BigAdd(HighBits(a, s), PowerOfTwo(s))
         ELSE HighBits(a, s)

\* a, or a and something below one unit when sticky, rounded to Precision
\* significant bits, ties to even
RoundToPrecision(a, sticky) == RoundBits(a, sticky, BigBitLen(a) - Precision)

\* the float nearest to num / (m * 2^FracBits)
RoundedQuotient(num, m) ==
    RoundToPrecision(BigDivSmall(num, m), DivRem(num, m, 1) # 0)

\* the float nearest to n / m (a literal such as 0.7, or int / int)
FloatOfRatio(n, m) == RoundedQuotient(BigShl(BigOfInt(n), FracBits), m)

FloatZero == BigZero

\* a + b; adding 0.0 changes nothing
FloatAdd(a, b) ==
    IF b = FloatZero THEN a
    ELSE IF a = FloatZero THEN b
    ELSE RoundToPrecision(BigAdd(a, b), FALSE)

\* a - b for a >= b
FloatSub(a, b) == RoundToPrecision(BigSub(a, b), FALSE)

FloatLess(a, b) == BigLess(a, b)

\* Python max(a, b): b when it is the greater, else a
FloatMax(a, b) == IF FloatLess(a, b) THEN b ELSE a

\* the literals of rank.py
Float_0_4 == FloatOfRatio(4, 10)
Float_0_5 == FloatOfRatio(5, 10)
Float_0_7 == FloatOfRatio(7, 10)
Float_0_8 == FloatOfRatio(8, 10)
Float_1_0 == FloatOfRatio(10, 10)
Float_1_5 == FloatOfRatio(15, 10)
Float_2_0 == FloatOfRatio(20, 10)

----------------------------------------------------------------------------
(* services/rank.py *)

\* rank.py:15-21
SourceTerm(url) ==
    LET url_str == LowerAll(url)
    IN  IF WordIn("reddit.com", url_str) THEN Float_1_5
        ELSE IF WordIn("linkedin.com", url_str) THEN Float_1_0
        ELSE IF WordIn("x.com", url_str) \/ WordIn("twitter.com", url_str)
             THEN Float_0_7
        ELSE FloatZero

\* rank.py:31  2.0 * (1 - days_old / 180): the quotient rounded, then the
\* difference rounded; doubling is exact
RecencyBoost(days_old) ==
    IF days_old < 0
    THEN BigShl(FloatAdd(Float_1_0, FloatOfRatio(-days_old, RecencyWindow)), 1)
    ELSE BigShl(FloatSub(Float_1_0, FloatOfRatio(days_old, RecencyWindow)), 1)

\* rank.py:24-33
RecencyTerm(ts) ==
    IF ts.k = "aware" /\ ts.d < RecencyWindow
    THEN FloatMax(FloatZero, RecencyBoost(ts.d))
    ELSE FloatZero

\* rank.py:41-42
TitleStep(score, term_lower, title) ==
    IF WordIn(term_lower, title) THEN FloatAdd(score, Float_0_8) ELSE score

\* rank.py:43-44
SnippetStep(score, term_lower, snippet) ==
    IF WordIn(term_lower, snippet) THEN FloatAdd(score, Float_0_4) ELSE score

\* rank.py:40-44: what one term adds to the score
TermStep(score, term, title, snippet) ==
    SnippetStep(TitleStep(score, Lower(term), title), Lower(term), snippet)

\* rank.py:39-44: one pass over query_terms from the i-th on, repeats
\* included, the score growing term by term
RECURSIVE TermLoop(_, _, _, _, _)
TermLoop(score, query_terms, i, title, snippet) ==
    IF i > Len(query_terms) THEN score
    ELSE TermLoop(TermStep(score, query_terms[i], title, snippet),
                  query_terms, i + 1, title, snippet)

\* rank.py:46-51, each phrase as its pieces, blanks included
buying_signals ==
    << <<"our", " ", "company">>, <<"our", " ", "team">>, <<"we", " ", "need">>,
       <<"looking", " ", "for">>, <<"recommend">>, <<" ", "vs", " ">>,
       <<"alternative">>, <<"switching", " ", "from">>, <<"for", " ", "our">>,
       <<"enterprise">>, <<"business">>, <<"comparing">>, <<"evaluation">>,
       <<"migrating">>, <<"replacing", " ", "our">> >>

\* the words of a text joined by single blanks
RECURSIVE Spaced(_)
Spaced(text) ==
    IF Len(text) <= 1 THEN text
    ELSE <<text[1], " ">> \o Spaced(Tail(text))

\* Python signal in combined_text
SignalIn(signal, combined_text) ==
    IF Len(signal) = 1
    THEN WordIn(signal[1], combined_text)
    ELSE ContainsRun(combined_text, signal)

\* rank.py:52-56
IntentTerm(title, snippet) ==
    LET combined_text == Spaced(title) \o <<" ">> \o Spaced(snippet)
    IN  IF \E s \in 1..Len(buying_signals) : SignalIn(buying_signals[s], combined_text)
        THEN Float_0_5 ELSE FloatZero

\* rank.py:5-58
heuristic_intent_score(post, query_terms) ==
    LET title   == LowerAll(post.title)
        snippet == LowerAll(post.snippet)
    IN  FloatAdd(TermLoop(FloatAdd(FloatAdd(FloatZero, SourceTerm(post.url)),
                                   RecencyTerm(post.ts)),
                          query_terms, 1, title, snippet),
                 IntentTerm(title, snippet))

\* rank.py:75-78: q.lower().split() of every query, concatenated
RECURSIVE QueryTerms(_)
QueryTerms(qs) ==
    IF qs = <<>> THEN <<>>
    ELSE LowerAll(Head(qs)) \o QueryTerms(Tail(qs))

\* rank.py:81-84
ScorePosts(list, query_terms) ==
    [i \in 1..Len(list) |->
        [score |-> heuristic_intent_score(list[i], query_terms), post |-> list[i]]]
    \o <<>>

\* the permutation that puts element i of scored at place[i]
Arrange(scored, place) ==
    LET at == [k \in 1..Len(scored) |-> CHOOSE i \in 1..Len(scored) : place[i] = k]
    IN  [k \in 1..Len(scored) |-> scored[at[k]]]

\* an ascending stable sort read backwards: equal scores come out reversed
sort_ties_reversed(scored) ==
    LET n == Len(scored)
        place == [i \in 1..n |->
                    1 + Cardinality({ j \in 1..n : FloatLess(scored[i].score, scored[j].score) })
                      + Cardinality({ j \in (i + 1)..n : scored[j].score = scored[i].score })]
    IN  Arrange(scored, place)

\* rank.py:87  list.sort(key = score, reverse = True): descending and stable,
\* so an element comes after every element of a higher score and after the
\* elements of its own score that precede it in the list
SortByScoreDesc(scored) ==
    LET n == Len(scored)
        place == [i \in 1..n |->
                    1 + Cardinality({ j \in 1..n : FloatLess(scored[i].score, scored[j].score) })
                      + Cardinality({ j \in 1..(i - 1) : scored[j].score = scored[i].score })]
    IN  Arrange(scored, place)

\* scored_posts[:top_n] cut one short
slice_one_short(s, n) == SliceTo(s, n - 1)

\* rank.py:88  scored_posts[:top_n]
TopSlice(s, n) == SliceTo(s, n)

\* rank.py:62-88
rank_posts_by_intent(list, qs, n) ==
    LET query_terms  == QueryTerms(qs)
        scored_posts == SortByScoreDesc(ScorePosts(list, query_terms))
        top          == TopSlice(scored_posts, n)
    IN  [i \in 1..Len(top) |-> top[i].post]

----------------------------------------------------------------------------
(* Sample data *)

UrlA    == <<"reddit.com", "/a">>
UrlA1   == <<"reddit.com", "/a", "?", "x=1">>
UrlA2   == <<"reddit.com", "/a", "?", "x=2">>
UrlB    == <<"linkedin.com", "/b">>
UrlC    == <<"x.com", "/c">>
UrlD    == <<"netflix.com", "/d">>
UrlE    == <<"Reddit.com", "/e">>
UrlNone == <<>>
UrlQ    == <<"?", "x=1">>

\* arguments of the direct dedupe_by_url calls
DedupePosts ==
    { MkPost("reddit", <<"t1">>, UrlA, <<>>, NoTs),
      MkPost("reddit", <<"t2">>, UrlA, <<>>, NoTs),
      MkPost("reddit", <<"t1">>, UrlA1, <<>>, NoTs),
      MkPost("reddit", <<"t1">>, UrlA2, <<>>, NoTs),
      MkPost("linkedin", <<"t1">>, UrlB, <<>>, NoTs),
      MkPost("reddit", <<"t1">>, UrlNone, <<>>, NoTs),
      MkPost("linkedin", <<"t2">>, UrlNone, <<>>, NoTs),
      MkPost("x", <<"t1">>, UrlQ, <<>>, NoTs) }

\* arguments of the direct rank_posts_by_intent calls
RankPosts ==
    { MkPost("reddit", <<"CRM", "Tool">>, UrlA, <<>>, NoTs),
      MkPost("linkedin", <<"best", "crms">>, UrlB, <<"we", "need", "crm">>, AwareTs(0)),
      MkPost("x", <<"vs">>, UrlC, <<"tool">>, AwareTs(-3)),
      MkPost("x", <<"looking">>, UrlD, <<"for", "tool">>, AwareTs(200)),
      MkPost("reddit", <<>>, UrlE, <<>>, BadTs),
      MkPost("reddit", <<"recommended">>, UrlA1, <<>>, NaiveTs(10)),
      MkPost("x", <<"recommended">>, UrlC, <<>>, NoTs),
      MkPost("reddit", <<"crm">>, UrlNone, <<"crm">>, NoTs) }

RankQueries ==
    { <<>>, << <<"CRM">> >>, << <<"crm", "tool">>, <<"CRM">> >> }

TopNs == (-NegTopN .. MaxTopN) \cup {DefaultTopN}

----------------------------------------------------------------------------
(* Direct calls of dedupe_by_url *)

FetchIdle ==
    /\ f_rd = <<>> /\ f_li = <<>> /\ f_x = <<>> /\ calls = <<>>
    /\ rd_answers = <<>> /\ li_answers = <<>>

StreamIdle == s_ok = TRUE /\ s_lines = <<>> /\ s_pos = 0 /\ events = <<>>

Idle ==
    /\ queries = <<>> /\ posts = <<>> /\ unique = <<>> /\ top_candidates = <<>>
    /\ response = [t |-> "none", key |-> "", elems |-> <<>>] /\ judged = <<>> /\ keep = {} /\ result = <<>>
    /\ items = <<>> /\ deduped = <<>> /\ deduped2 = <<>>
    /\ r_posts = <<>> /\ r_queries = <<>> /\ top_n = DefaultTopN /\ ranked = <<>>
    /\ FetchIdle /\ StreamIdle

InitDedupe ==
    /\ pc = "input"
    /\ items \in SeqsUpTo(DedupePosts, MaxItems)
    /\ queries = <<>> /\ posts = <<>> /\ unique = <<>> /\ top_candidates = <<>>
    /\ response = [t |-> "none", key |-> "", elems |-> <<>>] /\ judged = <<>> /\ keep = {} /\ result = <<>>
    /\ deduped = <<>> /\ deduped2 = <<>>
    /\ r_posts = <<>> /\ r_queries = <<>> /\ top_n = DefaultTopN /\ ranked = <<>>
    /\ FetchIdle /\ StreamIdle

DedupeCall ==
    /\ pc = "input"
    /\ deduped' = dedupe_by_url(items)
    /\ pc' = "deduped"
    /\ UNCHANGED <<searchVars, rankVars, fetchVars, streamVars, items, deduped2>>

DedupeAgain ==
    /\ pc = "deduped"
    /\ deduped2' = dedupe_by_url(deduped)
    /\ pc' = "again"
    /\ UNCHANGED <<searchVars, rankVars, fetchVars, streamVars, items, deduped>>

NextDedupe == DedupeCall \/ DedupeAgain

SpecDedupe == InitDedupe /\ [][NextDedupe]_vars

----------------------------------------------------------------------------
(* Direct calls of rank_posts_by_intent *)

InitRank ==
    /\ pc = "input"
    /\ r_posts \in SeqsUpTo(RankPosts, MaxRanked)
    /\ r_queries \in RankQueries
    /\ top_n \in TopNs
    /\ ranked = <<>>
    /\ queries = <<>> /\ posts = <<>> /\ unique = <<>> /\ top_candidates = <<>>
    /\ response = [t |-> "none", key |-> "", elems |-> <<>>] /\ judged = <<>> /\ keep = {} /\ result = <<>>
    /\ items = <<>> /\ deduped = <<>> /\ deduped2 = <<>>
    /\ FetchIdle /\ StreamIdle

RankCall ==
    /\ pc = "input"
    /\ ranked' = rank_posts_by_intent(r_posts, r_queries, top_n)
    /\ pc' = "ranked"
    /\ UNCHANGED <<searchVars, dedupeVars, fetchVars, streamVars, r_posts, r_queries, top_n>>

NextRank == RankCall

SpecRank == InitRank /\ [][NextRank]_vars

----------------------------------------------------------------------------
(* services/search.py *)

\* search.py:20-30  _normalize: one Post per raw item, ts never set
_normalize(source, raw) ==
    [i \in 1..Len(raw) |->
        MkPost(source, raw[i].title, raw[i].link, raw[i].snippet, NoTs)]

\* search.py:37-49  one _cse call per query, the hits appended in query order
RECURSIVE SearchSource(_, _, _)
SearchSource(source, hits, i) ==
    IF i > Len(hits) THEN <<>>
    ELSE _normalize(source, hits[i]) \o SearchSource(source, hits, i + 1)

\* search.py:33-35
searchXApi == <<>>

\* one pass of the loop with linkedin ahead of reddit
mix_linkedin_first(rd, li, x, i) ==
       (IF i <= Len(li) THEN <<li[i]>> ELSE <<>>)
    \o (IF i <= Len(rd) THEN <<rd[i]>> ELSE <<>>)
    \o (IF i <= Len(x)  THEN <<x[i]>>  ELSE <<>>)

\* search.py:61-64  what one pass of the loop appends
MixStep(rd, li, x, i) ==
       (IF i <= Len(rd) THEN <<rd[i]>> ELSE <<>>)
    \o (IF i <= Len(li) THEN <<li[i]>> ELSE <<>>)
    \o (IF i <= Len(x)  THEN <<x[i]>>  ELSE <<>>)

\* search.py:60  for i in range(max_len), passes lo..hi in order (halved as
\* in DedupeLoop)
RECURSIVE MixLoop(_, _, _, _, _)
MixLoop(rd, li, x, lo, hi) ==
    IF lo > hi THEN <<>>
    ELSE IF lo = hi THEN MixStep(rd, li, x, lo)
    ELSE LET mid == (lo + hi) \div 2
         IN  MixLoop(rd, li, x, lo, mid) \o MixLoop(rd, li, x, mid + 1, hi)

\* search.py:51-66
SearchAllApis(rdHits, liHits) ==
    LET rd == SearchSource("reddit", rdHits, 1)
        li == SearchSource("linkedin", liHits, 1)
        x  == searchXApi
    IN  MixLoop(rd, li, x, 1, Max(Len(rd), Max(Len(li), Len(x))))

----------------------------------------------------------------------------
(* services/llm.py: llmFilterPosts.  The text the judgment service answers  *)
(* is modelled by what json.loads and the JudgeItem constructor make of it: *)
(*   [t |-> "invalid"]               json.loads raises                      *)
(*   [t |-> "list", elems]           a bare array                           *)
(*   [t |-> "dict", key, elems]      an object; key tells which of the keys *)
(*                                   looked for it has: "results", "items", *)
(*                                   "single" (url and keep; elems is the   *)
(*                                   object itself) or "none"               *)
(*   [t |-> "scalar"]                a number, string, true, false or null  *)
(* An element is [ok, url, keep]: ok is FALSE when JudgeItem rejects it     *)
(* (not an object, or a field missing or of the wrong type).                *)

JudgeItem(url, k, reason) == [url |-> url, keep |-> k, reason |-> reason]

\* llm.py:187
KeepAll(candidates) ==
    [i \in 1..Len(candidates) |->
        JudgeItem(candidates[i].url, TRUE, "Filter failed, keeping all")]

\* the list of JudgeItem built from the elements: raises as soon as one is rejected
Judgments(elems, candidates) ==
    IF \A i \in 1..Len(elems) : elems[i].ok
    THEN [i \in 1..Len(elems) |-> JudgeItem(elems[i].url, elems[i].keep, "r")]
    ELSE KeepAll(candidates)

\* llm.py:180-183
UnknownShape(candidates) == <<>>

\* llm.py:167-187
llmFilterPosts(resp, candidates) ==
    CASE resp.t = "invalid" -> KeepAll(candidates)
      [] resp.t = "list"    -> Judgments(resp.elems, candidates)
      [] resp.t = "dict" /\ resp.key \in {"results", "items", "single"}
                            -> Judgments(resp.elems, candidates)
      [] OTHER              -> UnknownShape(candidates)

----------------------------------------------------------------------------
(* main.py: the /search handler *)

\* main.py:122  the title/snippet/url triples handed to the filter
FilterItems(candidates) ==
    [i \in 1..Len(candidates) |->
        [title |-> candidates[i].title, snippet |-> candidates[i].snippet,
         url |-> candidates[i].url]]

\* main.py:125
KeepSet(js) == { js[i].url : i \in { k \in 1..Len(js) : js[k].keep } }

\* the fallback cut like the normal path, at 15
fallback_top15(candidates) == SliceTo(candidates, MaxReturned)

\* main.py:130
Fallback(candidates) == SliceTo(candidates, FallbackCount)

\* cut to 15 first, filter afterwards
top15_cut_before_filter(candidates, kept) ==
    LET head == SliceTo(candidates, MaxReturned)
    IN  AtPositionsOf(head, { i \in 1..Len(head) : head[i].url \in kept })

\* main.py:133
Top15(candidates, kept) ==
    SliceTo(AtPositionsOf(candidates,
                { i \in 1..Len(candidates) : candidates[i].url \in kept }),
            MaxReturned)

\* main.py:125-134
Assemble(candidates, js) ==
    IF Cardinality(KeepSet(js)) = 0
    THEN Fallback(candidates)
    ELSE Top15(candidates, KeepSet(js))

----------------------------------------------------------------------------
(* Inputs of the /search requests *)

SearchQueries ==
    { <<>>, << <<"CRM", "Tool">> >>, << <<"crm">>, <<"we", "need">> >> }

RawHit(title, link, snippet) == [title |-> title, link |-> link, snippet |-> snippet]

RedditRaw ==
    { RawHit(<<"CRM", "Tool">>, UrlA1, <<"we", "need", "crm">>),
      RawHit(<<"t">>, UrlA, <<>>) }

LinkedInRaw ==
    { RawHit(<<"best", "crms">>, UrlB, <<>>) }

\* n hits with n different paths and three kinds of title
BigHits(n) ==
    [i \in 1..n |->
        RawHit(IF i % 3 = 0 THEN <<"crm">> ELSE IF i % 3 = 1 THEN <<"tool">> ELSE <<>>,
               <<"reddit.com", ToString(i)>>,
               <<>>)]

RedditHitLists   == SeqsUpTo(RedditRaw, MaxHits) \cup { BigHits(BigLen) }
LinkedInHitLists == SeqsUpTo(LinkedInRaw, 1)

\* elements of the small answers: a candidate's url kept and not kept, the
\* same resource under another query string (the url of no candidate), and
\* an element JudgeItem rejects
JudgeElems ==
    { [ok |-> TRUE,  url |-> UrlA1, keep |-> TRUE],
      [ok |-> TRUE,  url |-> UrlA1, keep |-> FALSE],
      [ok |-> TRUE,  url |-> UrlA2, keep |-> TRUE],
      [ok |-> FALSE, url |-> <<>>,  keep |-> FALSE] }

\* a judgment for every candidate, last candidate first, keeping the
\* candidates at the ranks divisible by k
EveryKth(candidates, k) ==
    LET n == Len(candidates)
    IN  [i \in 1..n |->
            [ok |-> TRUE, url |-> candidates[n + 1 - i].url,
             keep |-> ((n + 1 - i) % k = 0)]]

Strides == {1, 2, 7, 1000}

ElemLists(candidates) ==
    SeqsUpTo(JudgeElems, MaxJudged) \cup { EveryKth(candidates, k) : k \in Strides }

Responses(candidates) ==
    { [t |-> "invalid", key |-> "", elems |-> <<>>],
      [t |-> "scalar",  key |-> "", elems |-> <<>>],
      [t |-> "dict",    key |-> "none", elems |-> <<>>] }
    \cup { [t |-> "list", key |-> "", elems |-> e] : e \in ElemLists(candidates) }
    \cup { [t |-> "dict", key |-> k, elems |-> e] :
              k \in {"results", "items"}, e \in ElemLists(candidates) }
    \cup { [t |-> "dict", key |-> "single", elems |-> <<e>>] : e \in JudgeElems }

----------------------------------------------------------------------------
(* The /search request, one step per awaited call: the _cse calls of       *)
(* searchRedditApi and searchLinkedInApi in query order, then the mixer,   *)
(* dedupe and ranking, then the filter call.  rd_answers and li_answers    *)
(* hold what the search service answers to the k-th _cse call of a source: *)
(* [ok, hits], ok = FALSE for an answer raise_for_status rejects.  calls   *)
(* is the log of the calls made: [fn, q, ok] with q the number of the      *)
(* query of a _cse call.                                                   *)

Call(fn, q, ok) == [fn |-> fn, q |-> q, ok |-> ok]

Answer(ok, hits) == [ok |-> ok, hits |-> hits]

Sources == {"reddit", "linkedin"}

\* the _cse calls made so far for one source
CseCalls(source) == { i \in 1..Len(calls) : calls[i].fn = source }

\* search.py:39-42, 46-49, 53-55: where the request stands once the k-th of
\* n _cse calls of a source has returned
AfterCse(stage, k, n) ==
    IF k < n THEN stage
    ELSE IF stage = "reddit" THEN "linkedin" ELSE "mix"

\* a failed _cse call taken as an empty answer, the loop going on
cse_raise_swallowed(stage, k, n) == AfterCse(stage, k, n)

\* search.py:17 raise_for_status: nothing in search.py catches it, so it
\* leaves searchRedditApi / searchLinkedInApi and SearchAllApis and reaches
\* main.py:135-137, which answers HTTPException(500)
OnCseRaise(stage, k, n) == "failed"

\* search.py:58-66
Mixed(rd, li, x) ==
    MixLoop(rd, li, x, 1, Max(Len(rd), Max(Len(li), Len(x))))

FetchRedditHits   == SeqsUpTo(RedditRaw, MaxFetchHits)
FetchLinkedInHits == SeqsUpTo(LinkedInRaw, MaxFetchHits)

\* the answers of the search service: a hit list, or an error status
Answers(hitLists) ==
    { Answer(TRUE, h) : h \in hitLists } \cup { Answer(FALSE, <<>>) }

\* few answers of the judgment service
FetchResponses(candidates) ==
    { [t |-> "invalid", key |-> "", elems |-> <<>>],
      [t |-> "scalar",  key |-> "", elems |-> <<>>],
      [t |-> "list", key |-> "", elems |-> EveryKth(candidates, 1)] }

\* main.py:102-105: a request arrives; rdLists and liLists are the hit
\* lists the sources may answer with
RequestInit(rdLists, liLists) ==
    /\ queries \in SearchQueries
    /\ rd_answers \in [1..Len(queries) -> Answers(rdLists)]
    /\ li_answers \in [1..Len(queries) -> Answers(liLists)]
    /\ pc = IF queries = <<>> THEN "mix" ELSE "reddit"
    /\ posts = <<>> /\ unique = <<>> /\ top_candidates = <<>>
    /\ response = [t |-> "none", key |-> "", elems |-> <<>>] /\ judged = <<>> /\ keep = {} /\ result = <<>>
    /\ items = <<>> /\ deduped = <<>> /\ deduped2 = <<>>
    /\ r_posts = <<>> /\ r_queries = <<>> /\ top_n = DefaultTopN /\ ranked = <<>>
    /\ f_rd = <<>> /\ f_li = <<>> /\ f_x = <<>> /\ calls = <<>>
    /\ StreamIdle

\* requests with short hit lists and a long one (at most one query of a
\* request is answered with the long list)
Init ==
    /\ RequestInit(RedditHitLists, LinkedInHitLists)
    /\ Cardinality({ i \in 1..Len(queries) : Len(rd_answers[i].hits) > MaxHits }) <= 1

\* requests with hit lists of up to MaxFetchHits hits
InitFetch == RequestInit(FetchRedditHits, FetchLinkedInHits)

\* search.py:46-48: the next _cse call of searchRedditApi returned
FetchReddit ==
    /\ pc = "reddit"
    /\ LET k == Cardinality(CseCalls("reddit")) + 1
       IN  /\ k <= Len(queries)
           /\ rd_answers[k].ok
           /\ f_rd' = f_rd \o _normalize("reddit", rd_answers[k].hits)
           /\ calls' = Append(calls, Call("reddit", k, TRUE))
           /\ pc' = AfterCse("reddit", k, Len(queries))
    /\ UNCHANGED <<searchVars, dedupeVars, rankVars, streamVars, f_li, f_x,
                   rd_answers, li_answers>>

\* search.py:47 with search.py:17 raising
FetchRedditRaise ==
    /\ pc = "reddit"
    /\ LET k == Cardinality(CseCalls("reddit")) + 1
       IN  /\ k <= Len(queries)
           /\ ~rd_answers[k].ok
           /\ calls' = Append(calls, Call("reddit", k, FALSE))
           /\ pc' = OnCseRaise("reddit", k, Len(queries))
    /\ UNCHANGED <<searchVars, dedupeVars, rankVars, streamVars, f_rd, f_li, f_x,
                   rd_answers, li_answers>>

\* search.py:39-41: the next _cse call of searchLinkedInApi returned
FetchLinkedIn ==
    /\ pc = "linkedin"
    /\ LET k == Cardinality(CseCalls("linkedin")) + 1
       IN  /\ k <= Len(queries)
           /\ li_answers[k].ok
           /\ f_li' = f_li \o _normalize("linkedin", li_answers[k].hits)
           /\ calls' = Append(calls, Call("linkedin", k, TRUE))
           /\ pc' = AfterCse("linkedin", k, Len(queries))
    /\ UNCHANGED <<searchVars, dedupeVars, rankVars, streamVars, f_rd, f_x,
                   rd_answers, li_answers>>

\* search.py:40 with search.py:17 raising
FetchLinkedInRaise ==
    /\ pc = "linkedin"
    /\ LET k == Cardinality(CseCalls("linkedin")) + 1
       IN  /\ k <= Len(queries)
           /\ ~li_answers[k].ok
           /\ calls' = Append(calls, Call("linkedin", k, FALSE))
           /\ pc' = OnCseRaise("linkedin", k, Len(queries))
    /\ UNCHANGED <<searchVars, dedupeVars, rankVars, streamVars, f_rd, f_li, f_x,
                   rd_answers, li_answers>>

\* search.py:55-66 and main.py:105-114: searchXApi (no call goes out), the
\* mixer, dedupe, the early return or the ranking
FetchMix ==
    /\ pc = "mix"
    /\ LET fetched == Mixed(f_rd, f_li, searchXApi)
           uniq    == dedupe_by_url(fetched)
       IN  /\ f_x' = searchXApi
           /\ posts' = fetched
           /\ unique' = uniq
           /\ IF uniq = <<>>
              THEN /\ top_candidates' = <<>>
                   /\ calls' = calls
                   /\ pc' = "done"
              ELSE /\ top_candidates' = rank_posts_by_intent(uniq, queries, DefaultTopN)
                   /\ calls' = Append(calls, Call("rank", 0, TRUE))
                   /\ pc' = "filtering"
    /\ UNCHANGED <<queries, response, judged, keep, result, dedupeVars, rankVars,
                   streamVars, f_rd, f_li, rd_answers, li_answers>>

\* main.py:122-134: the judgment service answered with resp
Filtered(resp) ==
    LET js == llmFilterPosts(resp, FilterItems(top_candidates))
    IN  /\ response' = resp
        /\ judged' = js
        /\ keep' = KeepSet(js)
        /\ result' = Assemble(top_candidates, js)
        /\ calls' = Append(calls, Call("filter", 0, TRUE))
        /\ pc' = "done"
        /\ UNCHANGED <<queries, posts, unique, top_candidates, dedupeVars, rankVars,
                       streamVars, f_rd, f_li, f_x, rd_answers, li_answers>>

\* main.py:122-134, any answer of Responses
SearchFilter ==
    /\ pc = "filtering"
    /\ \E resp \in Responses(top_candidates) : Filtered(resp)

\* main.py:122-134, the few answers of FetchResponses
FetchFilter ==
    /\ pc = "filtering"
    /\ \E resp \in FetchResponses(top_candidates) : Filtered(resp)

\* llm.py:20-21: _responses raises before the try of llmFilterPosts is
\* entered; main.py:135-137 turns it into HTTPException(500)
SearchFilterRaise ==
    /\ pc = "filtering"
    /\ response' = [t |-> "raise", key |-> "", elems |-> <<>>]
    /\ calls' = Append(calls, Call("filter", 0, FALSE))
    /\ pc' = "failed"
    /\ UNCHANGED <<queries, posts, unique, top_candidates, judged, keep, result,
                   dedupeVars, rankVars, streamVars, f_rd, f_li, f_x,
                   rd_answers, li_answers>>

Next ==
    \/ FetchReddit \/ FetchRedditRaise
    \/ FetchLinkedIn \/ FetchLinkedInRaise
    \/ FetchMix
    \/ SearchFilter \/ SearchFilterRaise

Spec == Init /\ [][Next]_vars

NextFetch ==
    \/ FetchReddit \/ FetchRedditRaise
    \/ FetchLinkedIn \/ FetchLinkedInRaise
    \/ FetchMix
    \/ FetchFilter \/ SearchFilterRaise

SpecFetch == InitFetch /\ [][NextFetch]_vars

----------------------------------------------------------------------------
(* The /reply/stream request.  An upstream line is [prefix, k, c]: prefix   *)
(* is how the line starts ("data: " or not), k what follows it and c the    *)
(* delta content of a chunk line ("" when it is absent, null or empty):     *)
(*   "delta"      JSON with choices[0].delta                                *)
(*   "done"       the text [DONE]                                           *)
(*   "badjson"    text json.loads rejects                                   *)
(*   "nochoices"  JSON whose choices is an empty list                       *)
(*   "blank"      nothing                                                   *)
(*   "broken"     no line: aiter_lines raises a transport error             *)
(* An event is [site, text]: the yield that produced it and its text.       *)

Line(prefix, k, c) == [prefix |-> prefix, k |-> k, c |-> c]

StreamLines ==
    { Line("data: ", "delta", "a"),
      Line("data: ", "delta", "b"),
      Line("data: ", "delta", ""),
      Line("data: ", "delta", "[DONE]"),
      Line("data: ", "done", ""),
      Line("", "done", ""),
      Line("data: ", "badjson", ""),
      Line("data: ", "nochoices", ""),
      Line("", "blank", ""),
      Line("", "broken", "") }

\* llm.py:38-50: what _responses_stream does with one upstream line
LineOutcome(line) ==
    IF line.k = "broken" THEN "raise"
    ELSE IF line.prefix # "data: " THEN "skip"
    ELSE IF line.k = "done" THEN "break"
    ELSE IF line.k = "badjson" THEN "skip"
    ELSE IF line.k = "nochoices" THEN "raise"
    ELSE IF line.c # "" THEN "yield"
    ELSE "skip"

\* whether the response is still open when the loop is left at this line (a
\* break or an exception of the loop body): leaving `async with` (llm.py:36)
\* then awaits its close.  After a transport error nothing is left to close
ResponseOpenAfter(line) == line.k # "broken"

\* what str(e) tells of the exception of a line
ErrorOf(line) == IF line.k = "broken" THEN "transport" ELSE "list index out of range"

\* main.py:165
ChunkEvent(chunk) == [site |-> "chunk", text |-> <<"data: ", chunk, "\n\n">>]

\* main.py:168
DoneEvent == [site |-> "done", text |-> <<"data: ", "[DONE]", "\n\n">>]

\* main.py:170
ErrorEvent(e) == [site |-> "error", text |-> <<"data: ", "[ERROR] ", e, "\n\n">>]

\* the error event followed by the completion event
error_then_done(evs, e) == evs \o <<ErrorEvent(e), DoneEvent>>

\* main.py:169-170: the except branch yields the error event and the
\* generator ends
OnRaise(evs, e) == Append(evs, ErrorEvent(e))

InitStream ==
    /\ pc = "open"
    /\ s_ok \in BOOLEAN
    /\ s_lines \in SeqsUpTo(StreamLines, MaxLines)
    /\ s_pos = 0
    /\ events = <<>>
    /\ queries = <<>> /\ posts = <<>> /\ unique = <<>> /\ top_candidates = <<>>
    /\ response = [t |-> "none", key |-> "", elems |-> <<>>] /\ judged = <<>> /\ keep = {} /\ result = <<>>
    /\ items = <<>> /\ deduped = <<>> /\ deduped2 = <<>>
    /\ r_posts = <<>> /\ r_queries = <<>> /\ top_n = DefaultTopN /\ ranked = <<>>
    /\ FetchIdle

\* llm.py:36-37: the upstream answered with a success status
StreamOpen ==
    /\ pc = "open" /\ s_ok
    /\ pc' = "streaming"
    /\ UNCHANGED <<searchVars, dedupeVars, rankVars, fetchVars, streamVars>>

\* llm.py:37 raise_for_status raising; main.py:169-170
StreamOpenRaise ==
    /\ pc = "open" /\ ~s_ok
    /\ events' = OnRaise(events, "status")
    /\ pc' = "closed"
    /\ UNCHANGED <<searchVars, dedupeVars, rankVars, fetchVars, s_ok, s_lines, s_pos>>

\* llm.py:47-48, llm.py:201, main.py:165: a content chunk goes through
StreamChunk ==
    /\ pc = "streaming" /\ s_pos < Len(s_lines)
    /\ LineOutcome(s_lines[s_pos + 1]) = "yield"
    /\ events' = Append(events, ChunkEvent(s_lines[s_pos + 1].c))
    /\ s_pos' = s_pos + 1
    /\ UNCHANGED <<pc, searchVars, dedupeVars, rankVars, fetchVars, s_ok, s_lines>>

\* llm.py:39, 47, 49-50: a line that yields nothing
StreamSkip ==
    /\ pc = "streaming" /\ s_pos < Len(s_lines)
    /\ LineOutcome(s_lines[s_pos + 1]) = "skip"
    /\ s_pos' = s_pos + 1
    /\ UNCHANGED <<pc, searchVars, dedupeVars, rankVars, fetchVars, s_ok, s_lines, events>>

\* llm.py:39-42: the line [DONE] is consumed and the loop left; the exit of
\* `async with` (llm.py:36) is awaited
StreamBreak ==
    /\ pc = "streaming" /\ s_pos < Len(s_lines)
    /\ LineOutcome(s_lines[s_pos + 1]) = "break"
    /\ s_pos' = s_pos + 1
    /\ pc' = "closing"
    /\ UNCHANGED <<searchVars, dedupeVars, rankVars, fetchVars, s_ok, s_lines, events>>

\* llm.py:38 the upstream has no more lines; main.py:168
StreamEnd ==
    /\ pc = "streaming" /\ s_pos = Len(s_lines)
    /\ events' = Append(events, DoneEvent)
    /\ pc' = "closed"
    /\ UNCHANGED <<searchVars, dedupeVars, rankVars, fetchVars, s_ok, s_lines, s_pos>>

\* llm.py:38 aiter_lines raising (a transport error); main.py:169-170
StreamRaise ==
    /\ pc = "streaming" /\ s_pos < Len(s_lines)
    /\ LineOutcome(s_lines[s_pos + 1]) = "raise"
    /\ ~ResponseOpenAfter(s_lines[s_pos + 1])
    /\ events' = OnRaise(events, ErrorOf(s_lines[s_pos + 1]))
    /\ s_pos' = s_pos + 1
    /\ pc' = "closed"
    /\ UNCHANGED <<searchVars, dedupeVars, rankVars, fetchVars, s_ok, s_lines>>

\* llm.py:39-45: the line is consumed and choices[0] raises IndexError, which
\* `except json.JSONDecodeError` does not catch; the exit of `async with`
\* (llm.py:36) is awaited
StreamBodyRaise ==
    /\ pc = "streaming" /\ s_pos < Len(s_lines)
    /\ LineOutcome(s_lines[s_pos + 1]) = "raise"
    /\ ResponseOpenAfter(s_lines[s_pos + 1])
    /\ s_pos' = s_pos + 1
    /\ pc' = "closing"
    /\ UNCHANGED <<searchVars, dedupeVars, rankVars, fetchVars, s_ok, s_lines, events>>

\* llm.py:36: the response is closed and `async with` left; the generator
\* ends (main.py:168) or its exception reaches main.py:169-170
StreamClosed ==
    /\ pc = "closing"
    /\ events' = IF LineOutcome(s_lines[s_pos]) = "break"
                 THEN Append(events, DoneEvent)
                 ELSE OnRaise(events, ErrorOf(s_lines[s_pos]))
    /\ pc' = "closed"
    /\ UNCHANGED <<searchVars, dedupeVars, rankVars, fetchVars, s_ok, s_lines, s_pos>>

NextStream ==
    \/ StreamOpen \/ StreamOpenRaise
    \/ StreamChunk \/ StreamSkip
    \/ StreamBreak \/ StreamEnd
    \/ StreamRaise \/ StreamBodyRaise
    \/ StreamClosed

SpecStream == InitStream /\ [][NextStream]_vars

----------------------------------------------------------------------------
(* Helpers of the properties *)

IsPrefix(a, b) == Len(a) <= Len(b) /\ \A i \in 1..Len(a) : a[i] = b[i]

Count(s, x) == Cardinality({ i \in 1..Len(s) : s[i] = x })

\* positions of s whose identity key occurs at no earlier position
FirstOccurrences(s) ==
    { i \in 1..Len(s) :
        \A j \in 1..(i - 1) : IdentityKey(s[j].url) # IdentityKey(s[i].url) }

ScoreOf(p) == heuristic_intent_score(p, QueryTerms(r_queries))

\* the records of a scored list that have score v, in list order
WithScore(scored, v) ==
    AtPositionsOf(scored, { i \in 1..Len(scored) : scored[i].score = v })

\* the filter call of the request returned (it did not raise)
Answered == pc = "done" /\ response.t \notin {"none", "raise"}

\* ranks of the candidates whose url is the url of a judgment with keep = true
KeptRanks(candidates, js) ==
    { i \in 1..Len(candidates) :
        \E k \in 1..Len(js) : js[k].keep /\ js[k].url = candidates[i].url }

\* ranks of the candidates whose identity key is that of a judgment with keep = true
KeptRanksByKey(candidates, js) ==
    { i \in 1..Len(candidates) :
        \E k \in 1..Len(js) :
            js[k].keep /\ IdentityKey(js[k].url) = IdentityKey(candidates[i].url) }

\* the answer is none of: a bare array, an object with key results, an object
\* with key items, a single judgment object
Malformed(resp) ==
    \/ resp.t \in {"invalid", "scalar"}
    \/ resp.t = "dict" /\ resp.key = "none"

----------------------------------------------------------------------------
(* C1: whenever the fetch and the filter call of a /search request return   *)
(* without raising and deduplication leaves at least one candidate, the     *)
(* returned post list is not empty, whatever judgments the filter returned. *)
C1_NeverEmpty ==
    (pc = "done" /\ unique # <<>>) => result # <<>>

(* C2: when the semantic-filter call raises, the request does not fail and  *)
(* returns the first 15 of the ranked candidates (all of them if fewer).    *)
C2_FilterRaiseKeepsAll ==
    response.t = "raise" =>
        /\ pc = "done"
        /\ result = SubSeq(top_candidates, 1, Min(MaxReturned, Len(top_candidates)))

(* C3: whenever the filter's answer is malformed or unparseable,            *)
(* llmFilterPosts returns one keep = true judgment per candidate, the       *)
(* result is the first 15 ranked candidates and the request does not fail.  *)
C3_MalformedKeepsAll ==
    (pc \in {"done", "failed"} /\ Malformed(response)) =>
        /\ pc = "done"
        /\ Len(judged) = Len(top_candidates)
        /\ \A i \in 1..Len(judged) :
               judged[i].keep /\ judged[i].url = top_candidates[i].url
        /\ result = SubSeq(top_candidates, 1, Min(MaxReturned, Len(top_candidates)))

(* C4: a ranked record counts as kept exactly when some returned judgment   *)
(* with keep = true has the record's identity key (the url cut at the first *)
(* "?"), so a judgment that differs from the record only in the query       *)
(* string still matches it.                                                 *)
C4_MatchByIdentityKey ==
    Answered =>
        \A i \in 1..Len(top_candidates) :
            (top_candidates[i].url \in keep)
                <=> (i \in KeptRanksByKey(top_candidates, judged))

(* C5: when at least one ranked record is kept by the filter, the result is *)
(* exactly the first min(15, number kept) kept records in their ranked      *)
(* order, whatever the order of the judgments; it holds no record that is   *)
(* not kept and none from outside the ranked top 60.                        *)
C5_KeptInRankOrder ==
    (Answered /\ KeptRanks(top_candidates, judged) # {}) =>
        LET ranks == KeptRanks(top_candidates, judged)
            n     == Min(MaxReturned, Cardinality(ranks))
        IN  /\ Len(result) = n
            /\ \A k \in 1..n :
                   \E i \in ranks :
                       /\ Cardinality({ j \in ranks : j <= i }) = k
                       /\ result[k] = top_candidates[i]
            /\ Len(top_candidates) <= DefaultTopN

C5_Witness ==
    /\ Answered
    /\ Len(unique) > DefaultTopN
    /\ Cardinality(KeptRanks(top_candidates, judged)) > MaxReturned
    /\ 1 \notin KeptRanks(top_candidates, judged)
    /\ judged[1].url = top_candidates[Len(top_candidates)].url
    /\ judged[1].keep
    /\ Len(result) = MaxReturned

(* C6: when no returned judgment has keep = true (an empty judgment list    *)
(* included), the result is exactly the first min(3, number of ranked       *)
(* candidates) records of the ranked list, in ranked order.                 *)
C6_FallbackTop3 ==
    (Answered /\ \A k \in 1..Len(judged) : ~judged[k].keep) =>
        result = SubSeq(top_candidates, 1, Min(FallbackCount, Len(top_candidates)))

C6_Witness ==
    /\ Answered
    /\ Len(top_candidates) > FallbackCount
    /\ Len(judged) = Len(top_candidates)
    /\ \A k \in 1..Len(judged) : ~judged[k].keep
    /\ result = <<top_candidates[1], top_candidates[2], top_candidates[3]>>

----------------------------------------------------------------------------
(* C7 (as stated): for every record list and every value of top_n,          *)
(* rank_posts_by_intent returns exactly min(len(records), top_n) records    *)
(* and never more than top_n.                                               *)
C7_AnyTopN ==
    pc = "ranked" =>
        /\ Len(ranked) = Min(Len(r_posts), top_n)
        /\ Len(ranked) <= top_n

(* C7 (amended): for every record list and every top_n >= 0,                *)
(* rank_posts_by_intent returns exactly min(len(records), top_n) records    *)
(* and never more than top_n.                                               *)
C7_NonNegativeTopN ==
    (pc = "ranked" /\ top_n >= 0) =>
        /\ Len(ranked) = Min(Len(r_posts), top_n)
        /\ Len(ranked) <= top_n

C7_Witness ==
    /\ pc = "ranked"
    /\ top_n >= 1
    /\ top_n < Len(r_posts)
    /\ Len(ranked) = top_n

(* C8: the output of rank_posts_by_intent is in non-increasing score order; *)
(* the records of any one score are, in the output, in the order they have  *)
(* in the input (they are the first of that score in the input); and the    *)
(* output holds no record more often than the input does.                   *)
C8_StableDescending ==
    pc = "ranked" =>
        LET given == ScorePosts(r_posts, QueryTerms(r_queries))
            out   == ScorePosts(ranked, QueryTerms(r_queries))
        IN
        /\ \A i \in 1..(Len(out) - 1) : ~FloatLess(out[i].score, out[i + 1].score)
        /\ \A k \in 1..Len(given) :
               IsPrefix(WithScore(out, given[k].score), WithScore(given, given[k].score))
        /\ \A i \in 1..Len(ranked) : Count(ranked, ranked[i]) <= Count(r_posts, ranked[i])

C8_Witness ==
    /\ pc = "ranked"
    /\ Len(ranked) = 3
    /\ ranked # r_posts
    /\ \E i \in 1..2 :
           /\ ScoreOf(ranked[i]) = ScoreOf(ranked[i + 1])
           /\ ranked[i] # ranked[i + 1]
    /\ FloatLess(ScoreOf(ranked[3]), ScoreOf(ranked[1]))

(* C9: dedupe_by_url returns the subsequence of its input made of the first *)
(* record of every identity key (url cut at the first "?"): no two output   *)
(* records share a key, every key of the input survives through its         *)
(* earliest record, and the records with an empty url collapse to the first *)
(* of them.                                                                 *)
C9_FirstOfEachKey ==
    pc \in {"deduped", "again"} =>
        /\ deduped = AtPositionsOf(items, FirstOccurrences(items))
        /\ \A i, j \in 1..Len(deduped) :
               i # j => IdentityKey(deduped[i].url) # IdentityKey(deduped[j].url)
        /\ \A i \in 1..Len(items) :
               \E k \in 1..Len(deduped) :
                   /\ IdentityKey(deduped[k].url) = IdentityKey(items[i].url)
                   /\ \E f \in FirstOccurrences(items) :
                          /\ f <= i
                          /\ deduped[k] = items[f]
        /\ \A i \in 1..Len(deduped) :
               deduped[i].url = <<>> =>
                   \A j \in 1..Len(items) :
                       items[j].url = <<>> =>
                           \E f \in 1..j : items[f] = deduped[i] /\ items[f].url = <<>>

C9_Witness ==
    /\ pc = "deduped"
    /\ Len(items) = 3
    /\ items[1].url = <<>> /\ items[3].url = <<>> /\ items[1] # items[3]
    /\ items[2].url # <<>>
    /\ deduped = <<items[1], items[2]>>

(* C10: deduplication is idempotent: dedupe_by_url applied to its own       *)
(* result returns that result unchanged.                                    *)
C10_Idempotent ==
    pc = "again" => deduped2 = deduped

C10_Witness ==
    /\ pc = "again"
    /\ Len(deduped) >= 2
    /\ Len(deduped) < Len(items)
    /\ deduped2 = deduped

----------------------------------------------------------------------------
\* the mixer of the step-wise request has run
MixerRan ==
    \/ pc \in {"filtering", "done"}
    \/ pc = "failed" /\ response.t = "raise"

(* C11: the mixer outputs, for i = 0, 1, 2, ... up to the length of the     *)
(* longest source list, reddit[i] then linkedin[i] then x[i], skipping a    *)
(* source with no element at index i; the output holds every fetched record *)
(* exactly once, keeps each source's order, and reddit = [r1, r2, r3],      *)
(* linkedin = [l1], x = [] gives [r1, l1, r2, r3].                          *)
C11_RoundRobinMix ==
    MixerRan =>
        LET nr == Len(f_rd)
            nl == Len(f_li)
            nx == Len(f_x)
        IN  /\ Len(posts) = nr + nl + nx
            /\ \A i \in 1..nr :
                   posts[i + Min(i - 1, nl) + Min(i - 1, nx)] = f_rd[i]
            /\ \A i \in 1..nl :
                   posts[Min(i, nr) + i + Min(i - 1, nx)] = f_li[i]
            /\ \A i \in 1..nx :
                   posts[Min(i, nr) + Min(i, nl) + i] = f_x[i]
            /\ \A k \in 1..Len(posts) :
                   Count(posts, posts[k])
                       = Count(f_rd, posts[k]) + Count(f_li, posts[k]) + Count(f_x, posts[k])
            /\ (nr = 3 /\ nl = 1 /\ nx = 0) =>
                   posts = <<f_rd[1], f_li[1], f_rd[2], f_rd[3]>>
            /\ posts = SearchAllApis([k \in 1..Len(queries) |-> rd_answers[k].hits],
                                     [k \in 1..Len(queries) |-> li_answers[k].hits])

C11_Witness ==
    /\ MixerRan
    /\ Len(f_rd) = 3 /\ Len(f_li) = 1 /\ f_x = <<>>
    /\ f_rd[1] # f_rd[2]
    /\ posts = <<f_rd[1], f_li[1], f_rd[2], f_rd[3]>>

----------------------------------------------------------------------------
\* the terms of a list without the repeats, each at its first place
RECURSIVE DistinctTerms(_)
DistinctTerms(terms) ==
    IF terms = <<>> THEN <<>>
    ELSE LET front == DistinctTerms(SubSeq(terms, 1, Len(terms) - 1))
             last  == Lower(terms[Len(terms)])
         IN  IF \E i \in 1..Len(front) : front[i] = last
             THEN front ELSE Append(front, last)

(* C12: in ranking each distinct query term contributes to a record's score *)
(* at most once per field, 0.8 for the lowercased title and 0.4 for the     *)
(* lowercased snippet; a term that occurs in several queries or several     *)
(* times in one query contributes no more than a term that occurs once.     *)
C12_DistinctTermsOnce ==
    pc = "ranked" =>
        \A i \in 1..Len(r_posts) :
            heuristic_intent_score(r_posts[i], QueryTerms(r_queries))
                = heuristic_intent_score(r_posts[i], DistinctTerms(QueryTerms(r_queries)))

----------------------------------------------------------------------------
\* the timestamp parses and the subtraction from the current moment succeeds
Parses(ts) == ts.k = "aware"

(* C13: the recency term is 2.0 * (1 - age / 180) when the timestamp parses *)
(* and the age in whole days is below 180, and 0 otherwise; for every       *)
(* timestamp (absent, malformed, past or later than the current moment) it  *)
(* is never negative and never above 2.0, the bonus at age 0.               *)
C13_RecencyBounded ==
    pc = "ranked" =>
        \A i \in 1..Len(r_posts) :
            LET ts   == r_posts[i].ts
                term == RecencyTerm(ts)
            IN  /\ term = IF Parses(ts) /\ ts.d < RecencyWindow
                          THEN RecencyBoost(ts.d) ELSE FloatZero
                /\ ~FloatLess(term, FloatZero)
                /\ ~FloatLess(Float_2_0, term)
                /\ Float_2_0 = RecencyBoost(0)

----------------------------------------------------------------------------
\* some source fetch call of the request has failed
FetchFailed ==
    \E i \in 1..Len(calls) : calls[i].fn \in Sources /\ ~calls[i].ok

(* C14: if a source fetch call fails during a search request, the request   *)
(* ends as a failure reported to the caller: the failed call is not         *)
(* retried, no later fetch, ranking or filter call is made, and nothing     *)
(* fetched from other sources or for earlier queries is returned.           *)
C14_FetchFailureEndsRequest ==
    FetchFailed =>
        LET n == Len(calls)
        IN  /\ pc = "failed"
            /\ calls[n].fn \in Sources /\ ~calls[n].ok
            /\ \A i \in 1..(n - 1) :
                   /\ calls[i].ok
                   /\ calls[i].fn \in Sources
                   /\ ~(calls[i].fn = calls[n].fn /\ calls[i].q = calls[n].q)
            /\ posts = <<>> /\ top_candidates = <<>>
            /\ response.t = "none" /\ judged = <<>>
            /\ result = <<>>

C14_Witness ==
    /\ FetchFailed
    /\ pc = "failed"
    /\ Len(calls) = 4
    /\ calls[4] = Call("linkedin", 2, FALSE)
    /\ f_rd # <<>> /\ f_li # <<>>
    /\ result = <<>>

----------------------------------------------------------------------------
\* positions of the terminal events yielded so far
Terminals == { i \in 1..Len(events) : events[i].site \in {"done", "error"} }

\* the upstream content chunks among the first n lines, empty ones left out
RECURSIVE ContentChunks(_, _)
ContentChunks(lines, n) ==
    IF n = 0 THEN <<>>
    ELSE LET l == lines[n]
         IN  ContentChunks(lines, n - 1)
             \o (IF l.prefix = "data: " /\ l.k = "delta" /\ l.c # "" THEN <<l.c>> ELSE <<>>)

\* the upstream raised: an error status, or the last line consumed raised
UpstreamRaised ==
    \/ ~s_ok
    \/ s_pos > 0 /\ s_lines[s_pos].k \in {"broken", "nochoices"}

(* C15: every /reply/stream event sequence that runs to completion ends     *)
(* with exactly one terminal event, data: [DONE] when the upstream finished *)
(* normally or data: [ERROR] ... when it raised, never both; no text chunk  *)
(* follows the terminal event, and the chunks before it are the upstream    *)
(* content chunks in arrival order with the empty ones skipped.             *)
C15_OneTerminalEvent ==
    LET chunks == ContentChunks(s_lines, s_pos)
        n      == Len(chunks)
    IN  /\ Cardinality(Terminals) <= 1
        /\ \A i \in Terminals : i = Len(events)
        /\ \A i \in 1..n : events[i] = [site |-> "chunk", text |-> <<"data: ", chunks[i], "\n\n">>]
        /\ Len(events) = n + Cardinality(Terminals)
        /\ pc = "closed" =>
               /\ Cardinality(Terminals) = 1
               /\ events[Len(events)].site = IF UpstreamRaised THEN "error" ELSE "done"
               /\ events[Len(events)].text[2] = IF UpstreamRaised THEN "[ERROR] " ELSE "[DONE]"

C15_Witness ==
    /\ pc = "closed"
    /\ s_lines = <<Line("data: ", "delta", "b"), Line("data: ", "delta", ""),
                   Line("data: ", "delta", "a")>>
    /\ Len(events) = 3
    /\ events[1].text[2] = "b" /\ events[2].text[2] = "a"
    /\ events[3].site = "done"

====
